---- MODULE Spec2Model ----
(***************************************************************************)
(* Model of src/main.py: a FastAPI service with four endpoints             *)
(*   GET /, GET /api/hello, POST /api/generate, GET /test                  *)
(* and the pure content generator generate_content.                        *)
(*                                                                         *)
(* Strings that the code formats or trims are sequences of one-character   *)
(* strings, so that trimming, concatenation and substring tests are        *)
(* computed character by character.  Option texts, status texts and other  *)
(* literals that are never formatted are TLA+ strings.  Python sequences   *)
(* are 0-based, TLA+ sequences 1-based: subtopics[0] is subtopics[1] here. *)
(* Non-ASCII status glyphs of /test are left out of the status texts.      *)
(***************************************************************************)
EXTENDS Integers, Sequences, FiniteSets, TLC

\* ------------------------------------------------------------------ bounds
\* Longest topic drawn from Alphabet.
MaxLen == 2
\* Number of request slots that can be in flight together.
NumReq == 2

Requests == 1..NumReq

\* ----------------------------------------------------------------- strings
\* Characters str.strip() removes (the ASCII ones that TLA+ strings can hold).
Whitespace == {" ", "\t", "\n", "\r", "\f"}

RECURSIVE LStrip(_)
LStrip(s) ==
  IF s # <<>> /\ Head(s) \in Whitespace THEN LStrip(Tail(s)) ELSE s

RECURSIVE RStrip(_)
RStrip(s) ==
  IF s # <<>> /\ s[Len(s)] \in Whitespace
    THEN RStrip(SubSeq(s, 1, Len(s) - 1))
    ELSE s

\* A strip() that forgets the trailing side.
StripLeftOnly(s) ==
  LStrip(s)

\* str.strip(): leading and trailing whitespace removed.
Strip(s) ==
  RStrip(LStrip(s))

\* Python's `a or b` on strings: the empty string is falsy.
OrElse(a, b) ==
  IF a = <<>> THEN b ELSE a

\* s[:n]
Take(s, n) ==
  SubSeq(s, 1, IF Len(s) < n THEN Len(s) ELSE n)

\* A dict literal {k1: v1, ..., kn: vn}: the key set is the set of keys and
\* a repeated key keeps the value written last.
DictOf(pairs) ==
  [k \in {pairs[i][1] : i \in DOMAIN pairs} |->
     pairs[CHOOSE i \in DOMAIN pairs :
             /\ pairs[i][1] = k
             /\ \A j \in DOMAIN pairs : pairs[j][1] = k => j <= i][2]]

\* ------------------------------------------- generate_content: the templates
\* line 37: "Introduction to Learning"
Fallback ==
  <<"I","n","t","r","o","d","u","c","t","i","o","n"," ","t","o"," ","L","e","a","r","n","i","n","g">>

\* line 41: f"Foundations of {base}"
Label0(base) ==
  <<"F","o","u","n","d","a","t","i","o","n","s"," ","o","f"," ">>
    \o base

\* line 42: f"Core Concepts in {base}"
Label1(base) ==
  <<"C","o","r","e"," ","C","o","n","c","e","p","t","s"," ","i","n"," ">>
    \o base

\* line 43: f"Applying {base}"
Label2(base) ==
  <<"A","p","p","l","y","i","n","g"," ">>
    \o base

\* line 44: f"Quick Review & Pitfalls"
Label3(base) ==
  <<"Q","u","i","c","k"," ","R","e","v","i","e","w"," ","&"," ","P","i","t","f","a","l","l","s">>

\* line 48: f"Start with the fundamentals of {base}. Clarify definitions, the problem {base} tries to solve, and key terminology."
Explanation0(base) ==
  <<"S","t","a","r","t"," ","w","i","t","h"," ","t","h","e"," ","f","u","n","d","a","m","e","n","t","a","l","s"," ","o","f"," ">>
    \o base
    \o <<"."," ","C","l","a","r","i","f","y"," ","d","e","f","i","n","i","t","i","o","n","s",","," ","t","h","e"," ","p","r","o","b","l","e","m"," ">>
    \o base
    \o <<" ","t","r","i","e","s"," ","t","o"," ","s","o","l","v","e",","," ","a","n","d"," ","k","e","y"," ","t","e","r","m","i","n","o","l","o","g","y",".">>

\* line 49: f"Dive into the main building blocks of {base}. Understand how ideas connect and compare trade-offs."
Explanation1(base) ==
  <<"D","i","v","e"," ","i","n","t","o"," ","t","h","e"," ","m","a","i","n"," ","b","u","i","l","d","i","n","g"," ","b","l","o","c","k","s"," ","o","f"," ">>
    \o base
    \o <<"."," ","U","n","d","e","r","s","t","a","n","d"," ","h","o","w"," ","i","d","e","a","s"," ","c","o","n","n","e","c","t"," ","a","n","d"," ","c","o","m","p","a","r","e"," ","t","r","a","d","e","-","o","f","f","s",".">>

\* line 50: f"Practice using {base} in realistic scenarios. Work through step-by-step reasoning and examples."
Explanation2(base) ==
  <<"P","r","a","c","t","i","c","e"," ","u","s","i","n","g"," ">>
    \o base
    \o <<" ","i","n"," ","r","e","a","l","i","s","t","i","c"," ","s","c","e","n","a","r","i","o","s","."," ","W","o","r","k"," ","t","h","r","o","u","g","h"," ","s","t","e","p","-","b","y","-","s","t","e","p"," ","r","e","a","s","o","n","i","n","g"," ","a","n","d"," ","e","x","a","m","p","l","e","s",".">>

\* line 51: f"Summarize what you've learned about {base}, highlight common mistakes, and create a concise review list."
Explanation3(base) ==
  <<"S","u","m","m","a","r","i","z","e"," ","w","h","a","t"," ","y","o","u","'","v","e"," ","l","e","a","r","n","e","d"," ","a","b","o","u","t"," ">>
    \o base
    \o <<","," ","h","i","g","h","l","i","g","h","t"," ","c","o","m","m","o","n"," ","m","i","s","t","a","k","e","s",","," ","a","n","d"," ","c","r","e","a","t","e"," ","a"," ","c","o","n","c","i","s","e"," ","r","e","v","i","e","w"," ","l","i","s","t",".">>

\* line 56: f"Define {base} in one sentence."
Example00(base) ==
  <<"D","e","f","i","n","e"," ">>
    \o base
    \o <<" ","i","n"," ","o","n","e"," ","s","e","n","t","e","n","c","e",".">>

\* line 57: f"List 3 real-world applications where {base} is useful."
Example01(base) ==
  <<"L","i","s","t"," ","3"," ","r","e","a","l","-","w","o","r","l","d"," ","a","p","p","l","i","c","a","t","i","o","n","s"," ","w","h","e","r","e"," ">>
    \o base
    \o <<" ","i","s"," ","u","s","e","f","u","l",".">>

\* line 58: f"Explain why {base} matters for learners at your level."
Example02(base) ==
  <<"E","x","p","l","a","i","n"," ","w","h","y"," ">>
    \o base
    \o <<" ","m","a","t","t","e","r","s"," ","f","o","r"," ","l","e","a","r","n","e","r","s"," ","a","t"," ","y","o","u","r"," ","l","e","v","e","l",".">>

\* line 61: f"Describe a core concept of {base} and give a short example."
Example10(base) ==
  <<"D","e","s","c","r","i","b","e"," ","a"," ","c","o","r","e"," ","c","o","n","c","e","p","t"," ","o","f"," ">>
    \o base
    \o <<" ","a","n","d"," ","g","i","v","e"," ","a"," ","s","h","o","r","t"," ","e","x","a","m","p","l","e",".">>

\* line 62: f"Contrast two approaches used in {base} and when to pick each."
Example11(base) ==
  <<"C","o","n","t","r","a","s","t"," ","t","w","o"," ","a","p","p","r","o","a","c","h","e","s"," ","u","s","e","d"," ","i","n"," ">>
    \o base
    \o <<" ","a","n","d"," ","w","h","e","n"," ","t","o"," ","p","i","c","k"," ","e","a","c","h",".">>

\* line 63: f"What assumptions are common when studying {base}?"
Example12(base) ==
  <<"W","h","a","t"," ","a","s","s","u","m","p","t","i","o","n","s"," ","a","r","e"," ","c","o","m","m","o","n"," ","w","h","e","n"," ","s","t","u","d","y","i","n","g"," ">>
    \o base
    \o <<"?">>

\* line 66: f"Walk through a worked example applying {base} step by step."
Example20(base) ==
  <<"W","a","l","k"," ","t","h","r","o","u","g","h"," ","a"," ","w","o","r","k","e","d"," ","e","x","a","m","p","l","e"," ","a","p","p","l","y","i","n","g"," ">>
    \o base
    \o <<" ","s","t","e","p"," ","b","y"," ","s","t","e","p",".">>

\* line 67: f"Identify edge cases that can break naive use of {base}."
Example21(base) ==
  <<"I","d","e","n","t","i","f","y"," ","e","d","g","e"," ","c","a","s","e","s"," ","t","h","a","t"," ","c","a","n"," ","b","r","e","a","k"," ","n","a","i","v","e"," ","u","s","e"," ","o","f"," ">>
    \o base
    \o <<".">>

\* line 68: f"Create a small challenge exercise involving {base}."
Example22(base) ==
  <<"C","r","e","a","t","e"," ","a"," ","s","m","a","l","l"," ","c","h","a","l","l","e","n","g","e"," ","e","x","e","r","c","i","s","e"," ","i","n","v","o","l","v","i","n","g"," ">>
    \o base
    \o <<".">>

\* line 71: f"Write a 5-bullet summary of {base}."
Example30(base) ==
  <<"W","r","i","t","e"," ","a"," ","5","-","b","u","l","l","e","t"," ","s","u","m","m","a","r","y"," ","o","f"," ">>
    \o base
    \o <<".">>

\* line 72: f"Name two common pitfalls and how to avoid them in {base}."
Example31(base) ==
  <<"N","a","m","e"," ","t","w","o"," ","c","o","m","m","o","n"," ","p","i","t","f","a","l","l","s"," ","a","n","d"," ","h","o","w"," ","t","o"," ","a","v","o","i","d"," ","t","h","e","m"," ","i","n"," ">>
    \o base
    \o <<".">>

\* line 73: f"Draft 3 flashcards to remember key ideas in {base}."
Example32(base) ==
  <<"D","r","a","f","t"," ","3"," ","f","l","a","s","h","c","a","r","d","s"," ","t","o"," ","r","e","m","e","m","b","e","r"," ","k","e","y"," ","i","d","e","a","s"," ","i","n"," ">>
    \o base
    \o <<".">>

\* line 81: f"Which best describes the aim of {base}?"
Question00(base) ==
  <<"W","h","i","c","h"," ","b","e","s","t"," ","d","e","s","c","r","i","b","e","s"," ","t","h","e"," ","a","i","m"," ","o","f"," ">>
    \o base
    \o <<"?">>

\* line 91: f"A good first step when learning {base} is to:"
Question01(base) ==
  <<"A"," ","g","o","o","d"," ","f","i","r","s","t"," ","s","t","e","p"," ","w","h","e","n"," ","l","e","a","r","n","i","n","g"," ">>
    \o base
    \o <<" ","i","s"," ","t","o",":">>

\* line 103: f"Core concepts in {base} should be:"
Question10(base) ==
  <<"C","o","r","e"," ","c","o","n","c","e","p","t","s"," ","i","n"," ">>
    \o base
    \o <<" ","s","h","o","u","l","d"," ","b","e",":">>

\* line 113: f"Trade-offs in {base} help you:"
Question11(base) ==
  <<"T","r","a","d","e","-","o","f","f","s"," ","i","n"," ">>
    \o base
    \o <<" ","h","e","l","p"," ","y","o","u",":">>

\* line 125: f"When applying {base}, start by:"
Question20(base) ==
  <<"W","h","e","n"," ","a","p","p","l","y","i","n","g"," ">>
    \o base
    \o <<","," ","s","t","a","r","t"," ","b","y",":">>

\* line 135: f"Edge cases are important because they:"
Question21(base) ==
  <<"E","d","g","e"," ","c","a","s","e","s"," ","a","r","e"," ","i","m","p","o","r","t","a","n","t"," ","b","e","c","a","u","s","e"," ","t","h","e","y",":">>

\* The same question with the placeholder left out.
Question30Fixed(base) ==
  <<"A"," ","c","o","n","c","i","s","e"," ","r","e","v","i","e","w"," ","o","f"," ">>
    \o <<" ","s","h","o","u","l","d",":">>

\* line 147: f"A concise review of {base} should:"
Question30(base) ==
  <<"A"," ","c","o","n","c","i","s","e"," ","r","e","v","i","e","w"," ","o","f"," ">>
    \o base
    \o <<" ","s","h","o","u","l","d",":">>

\* line 157: f"Flashcards for {base} work best when they:"
Question31(base) ==
  <<"F","l","a","s","h","c","a","r","d","s"," ","f","o","r"," ">>
    \o base
    \o <<" ","w","o","r","k"," ","b","e","s","t"," ","w","h","e","n"," ","t","h","e","y",":">>

\* lines 80-89
Options00 ==
  <<"It replaces all prior knowledge",
    "It provides a framework of key ideas",
    "It is only a set of formulas",
    "It has no practical use">>
Answer00 ==
  1

\* lines 90-99
Options01 ==
  <<"Memorize random facts",
    "Skim advanced papers",
    "Clarify definitions and goals",
    "Skip to hard problems">>
Answer01 ==
  2

\* lines 102-111
Options10 ==
  <<"Learned in isolation only",
    "Connected to each other",
    "Ignored if difficult",
    "Left for later">>
Answer10 ==
  1

\* lines 112-121
Options11 ==
  <<"Pick approaches that fit the context",
    "Avoid making choices",
    "Always choose the most complex method",
    "Ignore constraints">>
Answer11 ==
  0

\* lines 124-133
Options20 ==
  <<"Writing code immediately",
    "Understanding the problem and constraints",
    "Skipping examples",
    "Only reading theory">>
Answer20 ==
  1

\* lines 134-143
Options21 ==
  <<"Never occur",
    "Make solutions more entertaining",
    "Reveal hidden assumptions",
    "Reduce clarity">>
Answer21 ==
  2

\* lines 146-155
Options30 ==
  <<"List key points and pitfalls",
    "Introduce unrelated topics",
    "Avoid structure",
    "Be overly long">>
Answer30 ==
  0

\* lines 156-165
Options31 ==
  <<"Ask clear, focused questions",
    "Contain essays",
    "Use only images",
    "Avoid spaced repetition">>
Answer31 ==
  0

\* ------------------------------------------ generate_content: the statements
\* The base without the fallback.
BaseNoFallback(topic) ==
  Strip(topic)

\* line 37: base = topic.strip() or "Introduction to Learning"
BaseOf(topic) ==
  OrElse(Strip(topic), Fallback)

\* The label list with the third template written twice.
SubtopicsRepeated(base) ==
  <<Label0(base), Label1(base), Label0(base), Label3(base)>>

\* lines 40-45
SubtopicsOf(base) ==
  <<Label0(base), Label1(base), Label2(base), Label3(base)>>

\* lines 47-52
ExplanationsOf(base, subtopics) ==
  DictOf(<< <<subtopics[1], Explanation0(base)>>,
            <<subtopics[2], Explanation1(base)>>,
            <<subtopics[3], Explanation2(base)>>,
            <<subtopics[4], Explanation3(base)>> >>)

\* lines 54-75
ExamplesOf(base, subtopics) ==
  DictOf(<< <<subtopics[1], <<Example00(base), Example01(base), Example02(base)>> >>,
            <<subtopics[2], <<Example10(base), Example11(base), Example12(base)>> >>,
            <<subtopics[3], <<Example20(base), Example21(base), Example22(base)>> >>,
            <<subtopics[4], <<Example30(base), Example31(base), Example32(base)>> >> >>)

\* A quiz item whose answer counts the options from one.
QuizItemOneBased(q, options, answer) ==
  [q |-> q, options |-> options, answer |-> answer + 1]

\* One quiz item dict {"q": ..., "options": [...], "answer": n}.
QuizItem(q, options, answer) ==
  [q |-> q, options |-> options, answer |-> answer]

\* lines 78-167: the quiz items in source order, by subtopic position
QuizItemsOf(base) ==
  << <<QuizItem(Question00(base), Options00, Answer00),
       QuizItem(Question01(base), Options01, Answer01)>>,
     <<QuizItem(Question10(base), Options10, Answer10),
       QuizItem(Question11(base), Options11, Answer11)>>,
     <<QuizItem(Question20(base), Options20, Answer20),
       QuizItem(Question21(base), Options21, Answer21)>>,
     <<QuizItem(Question30(base), Options30, Answer30),
       QuizItem(Question31(base), Options31, Answer31)>> >>

\* lines 78-167
QuizzesOf(base, subtopics) ==
  DictOf([i \in 1..4 |-> <<subtopics[i], QuizItemsOf(base)[i]>>])

\* lines 169-175
ResultOf(base, subtopics, explanations, examples, quizzes) ==
  [base |-> base, subtopics |-> subtopics, explanations |-> explanations,
   examples |-> examples, quizzes |-> quizzes]

\* lines 36-175: generate_content as one function of its argument
generate_content(topic) ==
  LET base == BaseOf(topic)
      subtopics == SubtopicsOf(base)
  IN  ResultOf(base, subtopics,
               ExplanationsOf(base, subtopics),
               ExamplesOf(base, subtopics),
               QuizzesOf(base, subtopics))

\* --------------------------------------------------------------- the inputs
\* Characters of the generated topics: two kinds of whitespace, a letter that
\* occurs in no label template and one that occurs in "Quick Review & Pitfalls".
Alphabet == {" ", "\t", "x", "Q"}

BoundedTopics == UNION {[1..n -> Alphabet] : n \in 0..MaxLen}

NeuralNetworks ==
  <<"N","e","u","r","a","l"," ","N","e","t","w","o","r","k","s">>

SpecialTopics ==
  {NeuralNetworks, Fallback, <<" ">> \o Fallback \o <<"\n">>,
   <<"\t">> \o NeuralNetworks \o <<" ", " ">>}

\* Topics of the requests and calls of Spec.
Topics == BoundedTopics \cup SpecialTopics

\* Topics of the concurrent requests of ConcSpec.
ConcTopics == {<<"x">>, <<" ", "Q">>, <<"\t">>}

\* --------------------------------------------------------------- the state
VARIABLES
  kind,          \* per slot: "none", "generate", "root", "hello", "test", "call"
  payload,       \* per slot: payload.topic of the request, or the call's argument
  pc,            \* per slot: the line the handler is at
  topic,         \* generate_endpoint's local `topic`
  data,          \* generate_endpoint's local `data`; the value a direct call returns
  genCalls,      \* per slot: calls of generate_content made for the request
  arg,           \* per frame: generate_content's parameter `topic`
  base,          \* per frame: generate_content's local `base`
  subtopics,     \* per frame: local `subtopics`
  explanations,  \* per frame: local `explanations`
  examples,      \* per frame: local `examples`
  quizzes,       \* per frame: local `quizzes`
  response,      \* test_database's local `response`
  status,        \* per slot: HTTP status of the response, 0 while none is sent
  body           \* per slot: body of the response

reqVars == <<kind, payload>>
endpointVars == <<topic, data, genCalls>>
frameVars == <<arg, base, subtopics, explanations, examples, quizzes>>
testVars == <<response>>
outVars == <<status, body>>
vars == <<reqVars, pc, endpointVars, frameVars, testVars, outVars>>

NoData == [base |-> <<>>, subtopics |-> <<>>, explanations |-> <<>>,
           examples |-> <<>>, quizzes |-> <<>>]
NoBody == [empty |-> TRUE]
NoResponse == [backend |-> "", database |-> <<"">>, database_url |-> "",
               database_name |-> <<"">>, connection_status |-> "",
               collections |-> <<>>]

\* A module-level frame shared by every call.
SharedFrame(r) ==
  1

\* line 36: each call of generate_content has its own locals.
Frame(r) ==
  r

Init ==
  /\ kind = [r \in Requests |-> "none"]
  /\ payload = [r \in Requests |-> <<>>]
  /\ pc = [r \in Requests |-> "idle"]
  /\ topic = [r \in Requests |-> <<>>]
  /\ data = [r \in Requests |-> NoData]
  /\ genCalls = [r \in Requests |-> 0]
  /\ arg = [r \in Requests |-> <<>>]
  /\ base = [r \in Requests |-> <<>>]
  /\ subtopics = [r \in Requests |-> <<>>]
  /\ explanations = [r \in Requests |-> <<>>]
  /\ examples = [r \in Requests |-> <<>>]
  /\ quizzes = [r \in Requests |-> <<>>]
  /\ response = [r \in Requests |-> NoResponse]
  /\ status = [r \in Requests |-> 0]
  /\ body = [r \in Requests |-> NoBody]

\* ------------------------------------------------------------ the requests
Receive(r, k, t, line) ==
  /\ pc[r] = "idle"
  /\ kind' = [kind EXCEPT ![r] = k]
  /\ payload' = [payload EXCEPT ![r] = t]
  /\ pc' = [pc EXCEPT ![r] = line]
  /\ UNCHANGED <<endpointVars, frameVars, testVars, outVars>>

\* POST /api/generate with body {"topic": t} is routed to generate_endpoint.
ReceiveGenerate(r, t) ==
  Receive(r, "generate", t, "L190")

\* GET / is routed to read_root.
ReceiveRoot(r) ==
  Receive(r, "root", <<>>, "L180")

\* GET /api/hello is routed to hello.
ReceiveHello(r) ==
  Receive(r, "hello", <<>>, "L185")

\* GET /test is routed to test_database.
ReceiveTest(r) ==
  Receive(r, "test", <<>>, "L200")

\* generate_content(t) called directly, by a caller other than the endpoint.
CallGenerate(r, t) ==
  /\ pc[r] = "idle"
  /\ kind' = [kind EXCEPT ![r] = "call"]
  /\ payload' = [payload EXCEPT ![r] = t]
  /\ arg' = [arg EXCEPT ![Frame(r)] = t]
  /\ genCalls' = [genCalls EXCEPT ![r] = @ + 1]
  /\ pc' = [pc EXCEPT ![r] = "L37"]
  /\ UNCHANGED <<topic, data, base, subtopics, explanations, examples, quizzes,
                 testVars, outVars>>

Respond(r, code, content) ==
  /\ status' = [status EXCEPT ![r] = code]
  /\ body' = [body EXCEPT ![r] = content]
  /\ pc' = [pc EXCEPT ![r] = "done"]

\* lines 178-180
read_root(r) ==
  /\ pc[r] = "L180"
  /\ Respond(r, 200, [message |-> "Hello from FastAPI Backend!"])
  /\ UNCHANGED <<reqVars, endpointVars, frameVars, testVars>>

\* lines 183-185
hello(r) ==
  /\ pc[r] = "L185"
  /\ Respond(r, 200, [message |-> "Hello from the backend API!"])
  /\ UNCHANGED <<reqVars, endpointVars, frameVars, testVars>>

\* ----------------------------------------------------- generate_endpoint
\* The request's topic taken as it came.
EndpointTopicRaw(p) ==
  OrElse(p, <<>>)

\* line 190: (payload.topic or "").strip()
EndpointTopic(p) ==
  Strip(OrElse(p, <<>>))

\* line 190
EndpointStrip(r) ==
  /\ pc[r] = "L190"
  /\ topic' = [topic EXCEPT ![r] = EndpointTopic(payload[r])]
  /\ pc' = [pc EXCEPT ![r] = "L191"]
  /\ UNCHANGED <<reqVars, data, genCalls, frameVars, testVars, outVars>>

\* lines 191-192: raise HTTPException(status_code=400, detail="Topic is required")
EndpointReject(r) ==
  /\ pc[r] = "L191"
  /\ topic[r] = <<>>
  /\ Respond(r, 400, [detail |-> "Topic is required"])
  /\ UNCHANGED <<reqVars, endpointVars, frameVars, testVars>>

\* line 193: the call generate_content(topic)
EndpointCall(r) ==
  /\ pc[r] = "L191"
  /\ topic[r] # <<>>
  /\ arg' = [arg EXCEPT ![Frame(r)] = topic[r]]
  /\ genCalls' = [genCalls EXCEPT ![r] = @ + 1]
  /\ pc' = [pc EXCEPT ![r] = "L37"]
  /\ UNCHANGED <<reqVars, topic, data, base, subtopics, explanations, examples,
                 quizzes, testVars, outVars>>

\* line 194: return data, sent as the 200 response
EndpointReturn(r) ==
  /\ pc[r] = "L194"
  /\ Respond(r, 200, data[r])
  /\ UNCHANGED <<reqVars, endpointVars, frameVars, testVars>>

\* ------------------------------------------------------- generate_content
\* line 37
GenBase(r) ==
  /\ pc[r] = "L37"
  /\ base' = [base EXCEPT ![Frame(r)] = BaseOf(arg[Frame(r)])]
  /\ pc' = [pc EXCEPT ![r] = "L40"]
  /\ UNCHANGED <<reqVars, endpointVars, arg, subtopics, explanations, examples,
                 quizzes, testVars, outVars>>

\* lines 40-45
GenSubtopics(r) ==
  /\ pc[r] = "L40"
  /\ subtopics' = [subtopics EXCEPT ![Frame(r)] = SubtopicsOf(base[Frame(r)])]
  /\ pc' = [pc EXCEPT ![r] = "L47"]
  /\ UNCHANGED <<reqVars, endpointVars, arg, base, explanations, examples,
                 quizzes, testVars, outVars>>

\* lines 47-52
GenExplanations(r) ==
  /\ pc[r] = "L47"
  /\ explanations' = [explanations EXCEPT ![Frame(r)] =
                        ExplanationsOf(base[Frame(r)], subtopics[Frame(r)])]
  /\ pc' = [pc EXCEPT ![r] = "L54"]
  /\ UNCHANGED <<reqVars, endpointVars, arg, base, subtopics, examples,
                 quizzes, testVars, outVars>>

\* lines 54-75
GenExamples(r) ==
  /\ pc[r] = "L54"
  /\ examples' = [examples EXCEPT ![Frame(r)] =
                    ExamplesOf(base[Frame(r)], subtopics[Frame(r)])]
  /\ pc' = [pc EXCEPT ![r] = "L78"]
  /\ UNCHANGED <<reqVars, endpointVars, arg, base, subtopics, explanations,
                 quizzes, testVars, outVars>>

\* lines 78-167
GenQuizzes(r) ==
  /\ pc[r] = "L78"
  /\ quizzes' = [quizzes EXCEPT ![Frame(r)] =
                   QuizzesOf(base[Frame(r)], subtopics[Frame(r)])]
  /\ pc' = [pc EXCEPT ![r] = "L169"]
  /\ UNCHANGED <<reqVars, endpointVars, arg, base, subtopics, explanations,
                 examples, testVars, outVars>>

\* lines 169-175: the result goes to the caller, the endpoint (line 193) or
\* the direct caller, and the call's frame ends.
GenReturn(r) ==
  /\ pc[r] = "L169"
  /\ data' = [data EXCEPT ![r] =
                ResultOf(base[Frame(r)], subtopics[Frame(r)],
                         explanations[Frame(r)], examples[Frame(r)],
                         quizzes[Frame(r)])]
  /\ arg' = [arg EXCEPT ![Frame(r)] = <<>>]
  /\ base' = [base EXCEPT ![Frame(r)] = <<>>]
  /\ subtopics' = [subtopics EXCEPT ![Frame(r)] = <<>>]
  /\ explanations' = [explanations EXCEPT ![Frame(r)] = <<>>]
  /\ examples' = [examples EXCEPT ![Frame(r)] = <<>>]
  /\ quizzes' = [quizzes EXCEPT ![Frame(r)] = <<>>]
  /\ pc' = [pc EXCEPT ![r] = IF kind[r] = "call" THEN "done" ELSE "L194"]
  /\ UNCHANGED <<reqVars, topic, genCalls, testVars, outVars>>

\* ------------------------------------------------------------ test_database
\* line 225, line 232: str(e)[:50]
ErrTrunc == 50
\* line 222: collections[:10]
CollectionsShown == 10

\* Exception classes the database integration may raise: ImportError (the
\* module is missing) and any other class derived from Exception.
ExcKinds == {"ImportError", "Exception"}

\* Messages of the exceptions: one that is longer than ErrTrunc.
ExcMsgs == {[i \in 1..(ErrTrunc + 1) |-> "e"]}

Excs == [kind : ExcKinds, msg : ExcMsgs]

\* Values db.name may hold.
DbNames == {"appdb"}

\* Values list_collection_names() may return; one is longer than CollectionsShown.
CollectionLists == {<<>>, [i \in 1..(CollectionsShown + 1) |-> "c"]}

\* An except clause that names ImportError only.
IsImportErrorOnly(k) ==
  k = "ImportError"

\* lines 224, 231: `except Exception` matches every class derived from
\* Exception, ImportError among them.
IsException(k) ==
  k \in {"ImportError", "Exception"}

\* line 229: `except ImportError`
IsImportError(k) ==
  k = "ImportError"

\* lines 200-207
TestInit(r) ==
  /\ pc[r] = "L200"
  /\ response' = [response EXCEPT ![r] =
        [backend |-> "Running", database |-> <<"Not Available">>,
         database_url |-> "None", database_name |-> <<"None">>,
         connection_status |-> "Not Connected", collections |-> <<>>]]
  /\ pc' = [pc EXCEPT ![r] = "L211"]
  /\ UNCHANGED <<reqVars, endpointVars, frameVars, outVars>>

\* lines 229-232: exception e reaches the outer handlers with the local
\* `response` holding resp; an exception neither clause matches leaves the
\* handler and the framework answers 500.
OuterExcept(r, resp, e) ==
  IF IsImportError(e.kind)
    THEN /\ response' = [response EXCEPT ![r] = [resp EXCEPT !.database =
                <<"Database module not found (run enable-database first)">>]]
         /\ pc' = [pc EXCEPT ![r] = "L236"]
         /\ UNCHANGED outVars
    ELSE IF IsException(e.kind)
    THEN /\ response' = [response EXCEPT ![r] = [resp EXCEPT !.database =
                <<"Error: ", Take(e.msg, ErrTrunc)>>]]
         /\ pc' = [pc EXCEPT ![r] = "L236"]
         /\ UNCHANGED outVars
    ELSE /\ response' = [response EXCEPT ![r] = resp]
         /\ Respond(r, 500, [detail |-> "Internal Server Error"])

\* lines 224-225: exception e reaches the inner handler; one it does not
\* match goes on to the outer handlers.
InnerExcept(r, resp, e) ==
  IF IsException(e.kind)
    THEN /\ response' = [response EXCEPT ![r] = [resp EXCEPT !.database =
                <<"Connected but Error: ", Take(e.msg, ErrTrunc)>>]]
         /\ pc' = [pc EXCEPT ![r] = "L236"]
         /\ UNCHANGED outVars
    ELSE OuterExcept(r, resp, e)

\* line 211: from database import db.  The import raises, or binds db to
\* None or to a client object, or never returns.
TestImport(r) ==
  /\ pc[r] = "L211"
  /\ \/ \E e \in Excs : OuterExcept(r, response[r], e)
     \/ /\ pc' = [pc EXCEPT ![r] = "L227"]
        /\ UNCHANGED <<response, outVars>>
     \/ /\ pc' = [pc EXCEPT ![r] = "L214"]
        /\ UNCHANGED <<response, outVars>>
     \/ /\ pc' = [pc EXCEPT ![r] = "blocked"]
        /\ UNCHANGED <<response, outVars>>
  /\ UNCHANGED <<reqVars, endpointVars, frameVars>>

\* lines 214-217: db is not None.  hasattr(db, 'name') is true and db.name
\* yields a value, or it is false, or reading the attribute raises: then
\* lines 214-215 have run and lines 216-217 have not.
TestAvailable(r) ==
  /\ pc[r] = "L214"
  /\ \/ \E n \in {<<d>> : d \in DbNames} \cup {<<"Connected">>} :
          /\ response' = [response EXCEPT ![r].database = <<"Available">>,
                                          ![r].database_url = "Configured",
                                          ![r].database_name = n,
                                          ![r].connection_status = "Connected"]
          /\ pc' = [pc EXCEPT ![r] = "L221"]
          /\ UNCHANGED outVars
     \/ \E e \in Excs :
          OuterExcept(r, [response[r] EXCEPT !.database = <<"Available">>,
                                             !.database_url = "Configured"], e)
  /\ UNCHANGED <<reqVars, endpointVars, frameVars>>

\* lines 220-225: collections = db.list_collection_names() returns a list
\* and lines 222-223 run, or it raises, or it never returns.
TestList(r) ==
  /\ pc[r] = "L221"
  /\ \/ \E c \in CollectionLists :
          /\ response' = [response EXCEPT
                ![r].collections = Take(c, CollectionsShown),
                ![r].database = <<"Connected & Working">>]
          /\ pc' = [pc EXCEPT ![r] = "L236"]
          /\ UNCHANGED outVars
     \/ \E e \in Excs : InnerExcept(r, response[r], e)
     \/ /\ pc' = [pc EXCEPT ![r] = "blocked"]
        /\ UNCHANGED <<response, outVars>>
  /\ UNCHANGED <<reqVars, endpointVars, frameVars>>

\* lines 226-227: db is None
TestNotInitialized(r) ==
  /\ pc[r] = "L227"
  /\ response' = [response EXCEPT ![r].database =
                    <<"Available but not initialized">>]
  /\ pc' = [pc EXCEPT ![r] = "L236"]
  /\ UNCHANGED <<reqVars, endpointVars, frameVars, outVars>>

\* lines 234-239: each of the two environment variables is set or not, and
\* the response is returned.
TestReturn(r) ==
  /\ pc[r] = "L236"
  /\ \E url \in {"Set", "Not Set"}, name \in {"Set", "Not Set"} :
       LET resp == [response[r] EXCEPT !.database_url = url,
                                       !.database_name = <<name>>]
       IN  /\ response' = [response EXCEPT ![r] = resp]
           /\ Respond(r, 200, resp)
  /\ UNCHANGED <<reqVars, endpointVars, frameVars>>

\* ------------------------------------------------------- the specifications
\* The response is sent (or the direct call has returned): the slot is
\* given up.
Close(r) ==
  /\ pc[r] = "done"
  /\ kind' = [kind EXCEPT ![r] = "none"]
  /\ payload' = [payload EXCEPT ![r] = <<>>]
  /\ pc' = [pc EXCEPT ![r] = "idle"]
  /\ topic' = [topic EXCEPT ![r] = <<>>]
  /\ data' = [data EXCEPT ![r] = NoData]
  /\ genCalls' = [genCalls EXCEPT ![r] = 0]
  /\ UNCHANGED frameVars
  /\ response' = [response EXCEPT ![r] = NoResponse]
  /\ status' = [status EXCEPT ![r] = 0]
  /\ body' = [body EXCEPT ![r] = NoBody]

\* One step of the handler (or of the call) that slot r runs.
Handle(r) ==
  \/ read_root(r)
  \/ hello(r)
  \/ EndpointStrip(r)
  \/ EndpointReject(r)
  \/ EndpointCall(r)
  \/ EndpointReturn(r)
  \/ GenBase(r)
  \/ GenSubtopics(r)
  \/ GenExplanations(r)
  \/ GenExamples(r)
  \/ GenQuizzes(r)
  \/ GenReturn(r)
  \/ TestInit(r)
  \/ TestImport(r)
  \/ TestAvailable(r)
  \/ TestList(r)
  \/ TestNotInitialized(r)
  \/ TestReturn(r)

\* Spec: one slot, every topic of Topics, requests and direct calls.
Next ==
  \/ \E t \in Topics : ReceiveGenerate(1, t)
  \/ \E t \in Topics : CallGenerate(1, t)
  \/ ReceiveRoot(1)
  \/ ReceiveHello(1)
  \/ ReceiveTest(1)
  \/ Handle(1)
  \/ Close(1)

Spec == Init /\ [][Next]_vars

\* FairSpec: Spec, where a handler that can take a step takes it (the worker
\* that runs it is scheduled); no request has to arrive.
FairSpec == Spec /\ WF_vars(Handle(1))

\* ConcSpec: every slot, the requests in flight together, their steps
\* interleaved.
ConcNext ==
  \E r \in Requests :
    \/ \E t \in ConcTopics : ReceiveGenerate(r, t)
    \/ ReceiveRoot(r)
    \/ ReceiveHello(r)
    \/ ReceiveTest(r)
    \/ Handle(r)
    \/ Close(r)

ConcSpec == Init /\ [][ConcNext]_vars

\* ================================================================ properties
\* What the properties say about strings, stated without the operators above.

\* t is empty or holds whitespace only.
IsBlank(t) ==
  \A i \in DOMAIN t : t[i] \in Whitespace

\* t from its first to its last character that is not whitespace.
TrimOf(t) ==
  IF IsBlank(t)
    THEN <<>>
    ELSE LET lo == CHOOSE i \in DOMAIN t :
                     /\ t[i] \notin Whitespace
                     /\ \A j \in 1..(i - 1) : t[j] \in Whitespace
             hi == CHOOSE i \in DOMAIN t :
                     /\ t[i] \notin Whitespace
                     /\ \A j \in (i + 1)..Len(t) : t[j] \in Whitespace
         IN  SubSeq(t, lo, hi)

\* needle occurs in hay as a contiguous run of characters.
Contains(hay, needle) ==
  \E i \in 0..(Len(hay) - Len(needle)) :
    SubSeq(hay, i + 1, i + Len(needle)) = needle

\* generate_content has returned a result for slot r.
HasResult(r) ==
  /\ kind[r] \in {"generate", "call"}
  /\ pc[r] \in {"L194", "done"}
  /\ data[r] # NoData

TopicRequired == [detail |-> "Topic is required"]

\* C1: a POST /api/generate whose topic is empty after trimming is answered
\* 400 with detail "Topic is required", and generate_content is never
\* called for it.
C1_BlankTopicRejected ==
  \A r \in Requests :
    (kind[r] = "generate" /\ IsBlank(payload[r])) =>
      /\ genCalls[r] = 0
      /\ pc[r] \in {"L190", "L191", "done"}
      /\ pc[r] = "done" => status[r] = 400 /\ body[r] = TopicRequired

\* A whitespace-only topic has been rejected.
C1_Witness ==
  \E r \in Requests :
    /\ kind[r] = "generate"
    /\ payload[r] # <<>>
    /\ IsBlank(payload[r])
    /\ pc[r] = "done"
    /\ status[r] = 400

GenLines == {"L37", "L40", "L47", "L54", "L78", "L169"}

\* C2: a POST /api/generate whose trimmed topic is not empty calls
\* generate_content once, with the trimmed topic, and is answered 200 with
\* the result unchanged; the response's base is the trimmed topic, so it is
\* the fallback text only if the trimmed topic is that text.
C2_TopicGenerated ==
  \A r \in Requests :
    (kind[r] = "generate" /\ ~IsBlank(payload[r])) =>
      /\ genCalls[r] = (IF pc[r] \in {"L190", "L191"} THEN 0 ELSE 1)
      /\ pc[r] \in GenLines => arg[Frame(r)] = TrimOf(payload[r])
      /\ pc[r] = "done" =>
           /\ status[r] = 200
           /\ body[r] = data[r]
           /\ body[r] = generate_content(TrimOf(payload[r]))
           /\ body[r].base = TrimOf(payload[r])
           /\ body[r].base = Fallback => TrimOf(payload[r]) = Fallback

\* A topic with whitespace around it has been answered with its trimmed form.
C2_Witness ==
  \E r \in Requests :
    /\ kind[r] = "generate"
    /\ pc[r] = "done"
    /\ status[r] = 200
    /\ genCalls[r] = 1
    /\ payload[r] # TrimOf(payload[r])
    /\ body[r].base = TrimOf(payload[r])

\* C3: generate_content(t) returns for every t, with base the trimmed t
\* when that is not empty and "Introduction to Learning" when t is empty or
\* whitespace only.
C3_BaseOfResult ==
  \A r \in Requests :
    /\ kind[r] = "call" => pc[r] \in GenLines \cup {"done"}
    /\ (kind[r] = "call" /\ pc[r] = "done") => HasResult(r)
    /\ HasResult(r) =>
         data[r].base = (IF IsBlank(payload[r]) THEN Fallback
                                                ELSE TrimOf(payload[r]))

\* A whitespace-only argument has produced the fallback base.
C3_Witness ==
  \E r \in Requests :
    /\ kind[r] = "call"
    /\ pc[r] = "done"
    /\ payload[r] # <<>>
    /\ IsBlank(payload[r])
    /\ data[r].base = Fallback

\* C4: the result has four subtopic labels and each of the four contains
\* the base as a substring.
C4_EveryLabelContainsBase ==
  \A r \in Requests :
    HasResult(r) =>
      /\ Len(data[r].subtopics) = 4
      /\ \A i \in 1..4 : Contains(data[r].subtopics[i], data[r].base)

\* C5: the four labels are pairwise distinct, the key sets of explanations,
\* examples and quizzes are each the set of the four labels, and every key
\* has three example prompts and two quiz items.
C5_KeysAreTheLabels ==
  \A r \in Requests :
    HasResult(r) =>
      LET d == data[r]
          labels == {d.subtopics[i] : i \in 1..4}
      IN  /\ Len(d.subtopics) = 4
          /\ \A i, j \in 1..4 : i # j => d.subtopics[i] # d.subtopics[j]
          /\ DOMAIN d.explanations = labels
          /\ DOMAIN d.examples = labels
          /\ DOMAIN d.quizzes = labels
          /\ \A k \in labels : Len(d.examples[k]) = 3 /\ Len(d.quizzes[k]) = 2

\* A result whose base occurs in the fixed fourth label has four keys.
C5_Witness ==
  \E r \in Requests :
    /\ HasResult(r)
    /\ pc[r] = "done"
    /\ data[r].base = <<"Q">>
    /\ Cardinality(DOMAIN data[r].quizzes) = 4

\* The quiz item at subtopic position i (1 to 4), place j (1 to 2) of result d.
ItemAt(d, i, j) ==
  d.quizzes[d.subtopics[i]][j]

\* C6, as first stated: options and answer do not depend on the base, the
\* question texts at subtopic index 3 (position 4 here) do not vary with the
\* base and those at indices 0 to 2 do.
C6_QuestionsVaryAtIndices0To2 ==
  \A r \in Requests :
    (HasResult(r) /\ pc[r] = "done") =>
      \A t \in Topics : \A i \in 1..4 : \A j \in 1..2 :
        LET a == ItemAt(data[r], i, j)
            o == generate_content(t)
            b == ItemAt(o, i, j)
        IN  /\ a.options = b.options
            /\ a.answer = b.answer
            /\ i = 4 => a.q = b.q
            /\ (i <= 3 /\ data[r].base # o.base) => a.q # b.q

\* C6, amended: options and answer do not depend on the base; the question
\* text of every quiz item has the base substituted in and varies with it,
\* except the second item of subtopic index 2 (position 3 here), whose text
\* is fixed.
C6_QuestionsVaryButOne ==
  \A r \in Requests :
    (HasResult(r) /\ pc[r] = "done") =>
      \A t \in Topics : \A i \in 1..4 : \A j \in 1..2 :
        LET a == ItemAt(data[r], i, j)
            o == generate_content(t)
            b == ItemAt(o, i, j)
        IN  /\ a.options = b.options
            /\ a.answer = b.answer
            /\ (i = 3 /\ j = 2) => a.q = b.q
            /\ ~(i = 3 /\ j = 2) =>
                 /\ Contains(a.q, data[r].base)
                 /\ data[r].base # o.base => a.q # b.q

\* A result whose questions at subtopic index 3 hold the base "x".
C6_Witness ==
  \E r \in Requests :
    /\ HasResult(r)
    /\ pc[r] = "done"
    /\ data[r].base = <<"x">>
    /\ Contains(ItemAt(data[r], 4, 1).q, <<"x">>)
    /\ Contains(ItemAt(data[r], 4, 2).q, <<"x">>)
    /\ ~Contains(ItemAt(data[r], 3, 2).q, <<"x">>)

FoundationsOfNeuralNetworks ==
  <<"F","o","u","n","d","a","t","i","o","n","s"," ","o","f"," ","N","e","u","r","a","l"," ","N","e","t","w","o","r","k","s">>

\* C7: every quiz item of every subtopic has four options and an answer
\* index from 0 to 3; for topic "Neural Networks" the first label is
\* "Foundations of Neural Networks" and the second item of the second
\* subtopic has answer 0.
C7_AnswerDesignatesAnOption ==
  \A r \in Requests :
    HasResult(r) =>
      LET d == data[r]
      IN  /\ \A k \in DOMAIN d.quizzes : \A j \in DOMAIN d.quizzes[k] :
               /\ Len(d.quizzes[k][j].options) = 4
               /\ d.quizzes[k][j].answer \in 0..(Len(d.quizzes[k][j].options) - 1)
          /\ payload[r] = NeuralNetworks =>
               /\ d.subtopics[1] = FoundationsOfNeuralNetworks
               /\ d.quizzes[d.subtopics[2]][2].answer = 0

\* POST /api/generate with topic "Neural Networks" has been answered.
C7_Witness ==
  \E r \in Requests :
    /\ kind[r] = "generate"
    /\ payload[r] = NeuralNetworks
    /\ pc[r] = "done"
    /\ status[r] = 200
    /\ body[r].quizzes[body[r].subtopics[2]][2].answer = 0

StatusFields ==
  {"backend", "database", "database_url", "database_name",
   "connection_status", "collections"}

\* C8: GET /test is answered 200 with a status object whatever the database
\* integration raises or returns; no failure becomes an HTTP error.
C8_TestAlwaysOk ==
  \A r \in Requests :
    kind[r] = "test" =>
      /\ status[r] \in {0, 200}
      /\ pc[r] = "done" =>
           /\ status[r] = 200
           /\ DOMAIN body[r] = StatusFields
           /\ body[r].backend = "Running"

\* list_collection_names raised and the response is 200 with the error text,
\* cut to ErrTrunc characters.
C8_Witness ==
  \E r \in Requests :
    /\ kind[r] = "test"
    /\ pc[r] = "done"
    /\ status[r] = 200
    /\ body[r].database[1] = "Connected but Error: "
    /\ Len(body[r].database[2]) = ErrTrunc

\* C9: the database probe of GET /test is time-bounded: the handler always
\* responds in the end, a probe that never returns included.
C9_TestResponds ==
  \A r \in Requests : (kind[r] = "test") ~> (pc[r] = "done")

\* C10: under every interleaving of the requests in flight, the response to
\* a POST /api/generate is what the request gets when it runs alone, a
\* function of its topic; two requests with the same topic get the same
\* response.
C10_ResponseOfTopicAlone ==
  /\ \A r \in Requests :
       (kind[r] = "generate" /\ pc[r] = "done") =>
         IF IsBlank(payload[r])
           THEN status[r] = 400 /\ body[r] = TopicRequired
           ELSE status[r] = 200 /\ body[r] = generate_content(TrimOf(payload[r]))
  /\ \A r1, r2 \in Requests :
       (/\ kind[r1] = "generate" /\ pc[r1] = "done"
        /\ kind[r2] = "generate" /\ pc[r2] = "done"
        /\ payload[r1] = payload[r2]) =>
         status[r1] = status[r2] /\ body[r1] = body[r2]

\* One request is answered while another, with a different topic, is in the
\* middle of generate_content.
C10_Witness ==
  \E r1, r2 \in Requests :
    /\ r1 # r2
    /\ kind[r1] = "generate" /\ pc[r1] = "done" /\ status[r1] = 200
    /\ kind[r2] = "generate" /\ pc[r2] = "L47"
    /\ TrimOf(payload[r1]) # TrimOf(payload[r2])

====
